---- MODULE Spec2Model ----
(***************************************************************************)
(* A model of vee's State (src/src/state.rs) and Line (src/src/line.rs):   *)
(* the buffer, the cursor and anchor, the search state with the per-line   *)
(* match annotations, the mode, and State::handle with every motion and    *)
(* selection it dispatches to; and of the frame ui::draw (src/src/ui.rs)   *)
(* queues after each event of main's loop (src/src/main.rs).               *)
(*                                                                         *)
(* A line is a sequence of characters; a character is a string naming one  *)
(* Unicode scalar value.  Columns are byte offsets as in the source, so    *)
(* every operator converts between characters and bytes with len_utf8.     *)
(* Rows are 0-based as in the source: Line(y) is text[y] of the source.    *)
(***************************************************************************)
EXTENDS Integers, Sequences, FiniteSets, TLC

VARIABLES
    text,      \* State.text: the lines' strings (Line.0), fixed after State::new
    ann,       \* per line, Line.1: [matches, match_indices]
    mode,      \* State.mode
    cursor,    \* State.cursor: [y, x, w]
    anchor,    \* State.anchor: None or Some(cursor)
    search,    \* State.search: None or Some(Ok(regex)) or Some(Err(e))
    pc,        \* main's event loop: "loop", "done" (handle returned false), "panic"
    arm,       \* the arm of `match event.code` the last call of handle took
               \* ("" before the first call, "_" for the catch-all arm)
    pmode,     \* State.mode when that call matched on it
    psearch,   \* State.search when that call began
    size,      \* main's `size`: the terminal's (columns, rows)
    frame      \* what the last call of ui::draw queued, and how it ended

vars == <<text, ann, mode, cursor, anchor, search, pc, arm, pmode, psearch, size, frame>>

----------------------------------------------------------------------------
(* Option<T> *)

None == <<>>
Some(v) == <<v>>
is_some(o) == o # <<>>
unwrap(o) == o[1]

----------------------------------------------------------------------------
(* Characters.  "U00E9" is U+00E9 (2 bytes, 1 column, a letter), "U4E2D" is *)
(* U+4E2D (3 bytes, 2 columns, a letter), "U0301" is the combining acute    *)
(* accent U+0301 (2 bytes, 0 columns, not alphanumeric).  Every other       *)
(* character used is ASCII.                                                 *)

len_utf8(c) ==
    CASE c \in {"U00E9", "U0301"} -> 2
      [] c = "U4E2D" -> 3
      [] OTHER -> 1

\* UnicodeWidthChar::width(c).unwrap_or(0)
width(c) ==
    CASE c = "U4E2D" -> 2
      [] c = "U0301" -> 0
      [] OTHER -> 1

is_whitespace(c) == c = " "

is_alphanumeric(c) == c \in {"a", "b", "c", "d", "e", "f", "g", "h", "i", "o", "r",
                             "U00E9", "U4E2D"}

\* the two closures handle passes as `wordish`
wordish(cls, c) ==
    IF cls = "narrow" THEN is_alphanumeric(c) \/ c = "_" ELSE ~is_whitespace(c)

Openers == {"[", "{", "("}
Closers == {"]", "}", ")"}

\* the opener a closer pops, and the closer an opener pops
Partner(c) ==
    CASE c = "]" -> "[" [] c = "}" -> "{" [] c = ")" -> "("
      [] c = "[" -> "]" [] c = "{" -> "}" [] c = "(" -> ")"

----------------------------------------------------------------------------
(* Strings *)

RECURSIVE len(_)
\* str::len: the length in bytes
len(l) == IF l = <<>> THEN 0 ELSE len_utf8(Head(l)) + len(Tail(l))

RECURSIVE str_width(_)
\* UnicodeWidthStr::width
str_width(l) == IF l = <<>> THEN 0 ELSE width(Head(l)) + str_width(Tail(l))

\* x is a UTF-8 character boundary of l (str::is_char_boundary)
is_char_boundary(l, x) == \E i \in 0..Len(l) : len(SubSeq(l, 1, i)) = x

\* the number of characters of l[..x]; slicing off a boundary panics in the
\* source and has no value here
CharsBefore(l, x) == CHOOSE i \in 0..Len(l) : len(SubSeq(l, 1, i)) = x

\* &l[..x] and &l[x..]
Upto(l, x) == SubSeq(l, 1, CharsBefore(l, x))
From(l, x) == SubSeq(l, CharsBefore(l, x) + 1, Len(l))

Last(l) == l[Len(l)]
Front(l) == SubSeq(l, 1, Len(l) - 1)

Line(y) == text[y + 1]

Point(y, x) == [y |-> y, x |-> x]

\* impl From<Cursor> for Point
into(c) == [y |-> c.y, x |-> c.x]

----------------------------------------------------------------------------
(* regex: escape, Regex::new and find_iter, for the escaped literals that   *)
(* State::search compiles.                                                  *)

\* the characters regex::escape puts a backslash before
is_meta_character(c) ==
    c \in {"\\", ".", "+", "*", "?", "(", ")", "|", "[", "]", "{", "}", "^", "$",
           "#", "&", "-", "~"}

RECURSIVE escape(_)
\* regex::escape
escape(lit) ==
    IF lit = <<>> THEN <<>>
    ELSE (IF is_meta_character(Head(lit)) THEN <<"\\", Head(lit)>> ELSE <<Head(lit)>>)
         \o escape(Tail(lit))

RECURSIVE Literal(_)
\* the literal an escaped pattern denotes: a backslash makes the next
\* character literal
Literal(pat) ==
    IF pat = <<>> THEN <<>>
    ELSE IF Head(pat) = "\\" /\ Len(pat) >= 2
         THEN <<pat[2]>> \o Literal(Tail(Tail(pat)))
         ELSE <<Head(pat)>> \o Literal(Tail(pat))

\* Regex::new of an escaped literal: the compiled regex keeps its pattern
Regex_new(pat) == [ok |-> TRUE, re |-> pat]

\* the literal starts at character i (1-based) of l
MatchesAt(lit, l, i) ==
    /\ i + Len(lit) - 1 <= Len(l)
    /\ SubSeq(l, i, i + Len(lit) - 1) = lit

RECURSIVE find_scan(_, _, _)
\* Regex::find_iter from character i: leftmost, non-overlapping matches as
\* (start, end) byte offsets; an empty match is followed by a step of one
\* character
find_scan(lit, l, i) ==
    IF i > Len(l) + 1 THEN <<>>
    ELSE IF MatchesAt(lit, l, i)
         THEN <<(<<len(SubSeq(l, 1, i - 1)), len(SubSeq(l, 1, i + Len(lit) - 1))>>)>>
              \o find_scan(lit, l, IF lit = <<>> THEN i + 1 ELSE i + Len(lit))
         ELSE find_scan(lit, l, i + 1)

find_iter(re, l) == find_scan(Literal(re.re), l, 1)

----------------------------------------------------------------------------
(* Line (src/src/line.rs) *)

NoAnnotations == [matches |-> <<>>, match_indices |-> {}]

\* Match::range of each match, collected
RangeIndices(ms) == UNION {m[1]..(m[2] - 1) : m \in {ms[i] : i \in 1..Len(ms)}}

\* a faulty variant: the previous matches are kept when no regex is given
annotate_keeps(l, a, re) ==
    IF is_some(re)
    THEN LET ms == find_iter(unwrap(re), l)
         IN  [matches |-> ms, match_indices |-> RangeIndices(ms)]
    ELSE a

\* Line::annotate: l the line's string, a its annotations, re an Option<&Regex>
annotate(l, a, re) ==
    IF is_some(re)
    THEN LET ms == find_iter(unwrap(re), l)
         IN  [matches |-> ms, match_indices |-> RangeIndices(ms)]
    ELSE NoAnnotations

----------------------------------------------------------------------------
(* State (src/src/state.rs).  A method taking &mut self is an operator from *)
(* the state record s = [mode, cursor, anchor, search, ann] to the state    *)
(* record it leaves; text never changes.                                    *)

Cursor(y, x, w) == [y |-> y, x |-> x, w |-> w]

\* the derived PartialOrd of Cursor: lexicographic in the field order y, x, w
cursor_lt(a, b) ==
    \/ a.y < b.y
    \/ a.y = b.y /\ a.x < b.x
    \/ a.y = b.y /\ a.x = b.x /\ a.w < b.w

\* the derived PartialOrd of Point: lexicographic in the field order y, x
point_lt(a, b) == a.y < b.y \/ (a.y = b.y /\ a.x < b.x)
point_le(a, b) == point_lt(a, b) \/ (a.y = b.y /\ a.x = b.x)

cursor_width(s) == str_width(Upto(Line(s.cursor.y), s.cursor.x))

\* a faulty variant: the comparison is the wrong way round
selection_reversed(s) ==
    IF is_some(s.anchor)
    THEN LET a == unwrap(s.anchor)
         IN  Some(IF cursor_lt(s.cursor, a) THEN <<a, s.cursor>> ELSE <<s.cursor, a>>)
    ELSE None

selection(s) ==
    IF is_some(s.anchor)
    THEN LET a == unwrap(s.anchor)
         IN  Some(IF cursor_lt(a, s.cursor) THEN <<a, s.cursor>> ELSE <<s.cursor, a>>)
    ELSE None

\* self.search.as_ref().and_then(|r| r.as_ref().ok())
SearchRegex(srch) ==
    IF is_some(srch) /\ unwrap(srch).ok THEN Some(unwrap(srch)) ELSE None

\* every line annotated against re
AnnotateAll(a, re) == [i \in 1..Len(text) |-> annotate(text[i], a[i], re)]

\* a faulty variant: the search is made whatever rows the selection spans
State_search_any_row(s) ==
    LET sel == selection(s) IN
    IF is_some(sel)
    THEN LET a == unwrap(sel)[1]
             b == unwrap(sel)[2]
             l == Line(a.y)
             x1 == IF a.y = b.y THEN b.x ELSE len(l)
             srch == Some(Regex_new(escape(SubSeq(l, CharsBefore(l, a.x) + 1,
                                                  CharsBefore(l, x1)))))
         IN  [s EXCEPT !.search = srch, !.ann = AnnotateAll(s.ann, SearchRegex(srch))]
    ELSE s

\* State::search
State_search(s) ==
    LET sel == selection(s) IN
    IF is_some(sel) /\ unwrap(sel)[1].y = unwrap(sel)[2].y
    THEN LET a == unwrap(sel)[1]
             b == unwrap(sel)[2]
             l == Line(a.y)
             srch == Some(Regex_new(escape(SubSeq(l, CharsBefore(l, a.x) + 1,
                                                  CharsBefore(l, b.x)))))
         IN  [s EXCEPT !.search = srch, !.ann = AnnotateAll(s.ann, SearchRegex(srch))]
    ELSE s

cancel_search(s) == [s EXCEPT !.search = None, !.ann = AnnotateAll(s.ann, None)]

\* a faulty variant: the target width is not refreshed
move_cursor_stale(s, point) == [s EXCEPT !.cursor.y = point.y, !.cursor.x = point.x]

move_cursor(s, point) ==
    LET t == [s EXCEPT !.cursor.y = point.y, !.cursor.x = point.x]
    IN  [t EXCEPT !.cursor.w = cursor_width(t)]

prev_char(point) ==
    LET pre == Upto(Line(point.y), point.x)
    IN  IF pre = <<>> THEN None ELSE Some(Last(pre))

next_char(point) ==
    LET rest == From(Line(point.y), point.x)
    IN  IF rest = <<>> THEN None ELSE Some(Head(rest))

left_of(point) ==
    LET c == prev_char(point)
    IN  IF is_some(c) THEN Some(Point(point.y, point.x - len_utf8(unwrap(c)))) ELSE None

right_of(point) ==
    LET c == next_char(point)
    IN  IF is_some(c) THEN Some(Point(point.y, point.x + len_utf8(unwrap(c)))) ELSE None

RECURSIVE update_x_scan_ge(_, _, _, _)
\* a faulty variant: the scan stops as soon as the width reaches the target
update_x_scan_ge(rest, x, w, target) ==
    IF rest = <<>> THEN x
    ELSE IF w + width(Head(rest)) >= target THEN x
         ELSE update_x_scan_ge(Tail(rest), x + len_utf8(Head(rest)),
                               w + width(Head(rest)), target)

RECURSIVE update_x_scan_past(_, _, _, _)
\* a faulty variant: the scan stops after the character that passes the target
update_x_scan_past(rest, x, w, target) ==
    IF rest = <<>> THEN x
    ELSE IF w + width(Head(rest)) > target THEN x + len_utf8(Head(rest))
         ELSE update_x_scan_past(Tail(rest), x + len_utf8(Head(rest)),
                                 w + width(Head(rest)), target)

RECURSIVE update_x_scan(_, _, _, _)
\* the loop of update_x over char_indices: rest the characters from byte x
\* on, w the width accumulated before them
update_x_scan(rest, x, w, target) ==
    IF rest = <<>> THEN x
    ELSE IF w + width(Head(rest)) > target THEN x
         ELSE update_x_scan(Tail(rest), x + len_utf8(Head(rest)),
                            w + width(Head(rest)), target)

update_x(s) ==
    [s EXCEPT !.cursor.x = update_x_scan(Line(s.cursor.y), 0, 0, s.cursor.w)]

move_up(s, dist) ==
    update_x([s EXCEPT !.cursor.y = IF s.cursor.y > dist THEN s.cursor.y - dist ELSE 0])

move_down(s, dist) ==
    update_x([s EXCEPT !.cursor.y = IF s.cursor.y + dist < Len(text)
                                    THEN s.cursor.y + dist
                                    ELSE Len(text) - 1])

RECURSIVE StepLeft(_, _)
\* the loop of move_left
StepLeft(s, dist) ==
    IF dist = 0 THEN s
    ELSE LET c == prev_char(into(s.cursor))
         IN  StepLeft(IF is_some(c)
                      THEN [s EXCEPT !.cursor.x = s.cursor.x - len_utf8(unwrap(c))]
                      ELSE s,
                      dist - 1)

move_left(s, dist) ==
    LET t == StepLeft(s, dist) IN [t EXCEPT !.cursor.w = cursor_width(t)]

RECURSIVE StepRight(_, _)
\* the loop of move_right
StepRight(s, dist) ==
    IF dist = 0 THEN s
    ELSE LET c == next_char(into(s.cursor))
         IN  StepRight(IF is_some(c)
                       THEN [s EXCEPT !.cursor.x = s.cursor.x + len_utf8(unwrap(c))]
                       ELSE s,
                       dist - 1)

move_right(s, dist) ==
    LET t == StepRight(s, dist) IN [t EXCEPT !.cursor.w = cursor_width(t)]

RECURSIVE left_word_scan(_, _, _, _)
\* the loop of left_word over the characters before x, last first
left_word_scan(cls, pre, x, seen_word) ==
    IF pre = <<>> THEN [x |-> x, seen_word |-> seen_word]
    ELSE IF seen_word /\ ~wordish(cls, Last(pre)) THEN [x |-> x, seen_word |-> seen_word]
         ELSE left_word_scan(cls, Front(pre), x - len_utf8(Last(pre)),
                             seen_word \/ wordish(cls, Last(pre)))

left_word(cls, point) ==
    LET n == next_char(point)
        r == left_word_scan(cls, Upto(Line(point.y), point.x), point.x,
                            is_some(n) /\ wordish(cls, unwrap(n)))
    IN  IF r.seen_word THEN Some(Point(point.y, r.x)) ELSE None

RECURSIVE right_word_scan_to_end(_, _, _, _)
\* a faulty variant: the scan does not stop where the word ends
right_word_scan_to_end(cls, rest, x, seen_word) ==
    IF rest = <<>> THEN [x |-> x, seen_word |-> seen_word]
    ELSE right_word_scan_to_end(cls, Tail(rest), x + len_utf8(Head(rest)),
                                seen_word \/ wordish(cls, Head(rest)))

RECURSIVE right_word_scan(_, _, _, _)
\* the loop of right_word over the characters from x on
right_word_scan(cls, rest, x, seen_word) ==
    IF rest = <<>> THEN [x |-> x, seen_word |-> seen_word]
    ELSE IF seen_word /\ ~wordish(cls, Head(rest)) THEN [x |-> x, seen_word |-> seen_word]
         ELSE right_word_scan(cls, Tail(rest), x + len_utf8(Head(rest)),
                              seen_word \/ wordish(cls, Head(rest)))

right_word(cls, point) ==
    LET p == prev_char(point)
        r == right_word_scan(cls, From(Line(point.y), point.x), point.x,
                             is_some(p) /\ wordish(cls, unwrap(p)))
    IN  IF r.seen_word THEN Some(Point(point.y, r.x)) ELSE None

move_left_word(s, cls) ==
    LET left == left_of(into(s.cursor)) IN
    IF is_some(left)
    THEN LET point == left_word(cls, unwrap(left))
         IN  IF is_some(point) THEN move_cursor(s, unwrap(point)) ELSE s
    ELSE s

move_right_word(s, cls) ==
    LET right == right_of(into(s.cursor)) IN
    IF is_some(right)
    THEN LET point == right_word(cls, unwrap(right))
         IN  IF is_some(point) THEN move_cursor(s, unwrap(point)) ELSE s
    ELSE s

RECURSIVE start_of_line_scan(_, _)
\* the loop of start_of_line: the byte offset of the first character that is
\* not whitespace, or None
start_of_line_scan(rest, x) ==
    IF rest = <<>> THEN None
    ELSE IF ~is_whitespace(Head(rest)) THEN Some(x)
         ELSE start_of_line_scan(Tail(rest), x + len_utf8(Head(rest)))

start_of_line(y) ==
    LET r == start_of_line_scan(Line(y), 0)
    IN  IF is_some(r) THEN Point(y, unwrap(r)) ELSE Point(y, 0)

end_of_line(y) == Point(y, len(Line(y)))

move_start_of_line(s) == move_cursor(s, start_of_line(s.cursor.y))

move_end_of_line(s) == move_cursor(s, end_of_line(s.cursor.y))

RECURSIVE open_quote_scan(_, _, _)
\* the loops of open_quote: pre the characters of row y before byte x
open_quote_scan(y, x, pre) ==
    IF pre = <<>>
    THEN IF y > 0 THEN open_quote_scan(y - 1, len(Line(y - 1)), Line(y - 1)) ELSE None
    ELSE IF Last(pre) = "\"" THEN Some(Point(y, x - len_utf8(Last(pre))))
         ELSE open_quote_scan(y, x - len_utf8(Last(pre)), Front(pre))

open_quote(point) == open_quote_scan(point.y, point.x, Upto(Line(point.y), point.x))

RECURSIVE close_quote_scan(_, _, _)
\* the loops of close_quote: rest the characters of row y from byte x on
close_quote_scan(y, x, rest) ==
    IF rest = <<>>
    THEN IF y + 1 < Len(text) THEN close_quote_scan(y + 1, 0, Line(y + 1)) ELSE None
    ELSE IF Head(rest) = "\"" THEN Some(Point(y, x))
         ELSE close_quote_scan(y, x + len_utf8(Head(rest)), Tail(rest))

close_quote(point) == close_quote_scan(point.y, point.x, From(Line(point.y), point.x))

RECURSIVE close_bracket_scan_flat(_, _, _, _)
\* a faulty variant: opening delimiters are not pushed, so the first closing
\* delimiter is the answer
close_bracket_scan_flat(y, x, rest, pending) ==
    IF rest = <<>>
    THEN IF y + 1 < Len(text) THEN close_bracket_scan_flat(y + 1, 0, Line(y + 1), pending)
         ELSE None
    ELSE IF Head(rest) \in Closers THEN Some(Point(y, x))
         ELSE close_bracket_scan_flat(y, x + len_utf8(Head(rest)), Tail(rest), pending)

RECURSIVE close_bracket_scan(_, _, _, _)
\* the loops of close_bracket: rest the characters of row y from byte x on
close_bracket_scan(y, x, rest, pending) ==
    IF rest = <<>>
    THEN IF y + 1 < Len(text) THEN close_bracket_scan(y + 1, 0, Line(y + 1), pending)
         ELSE None
    ELSE LET c == Head(rest) IN
         IF c \in Openers
         THEN close_bracket_scan(y, x + len_utf8(c), Tail(rest), Append(pending, c))
         ELSE IF c \in Closers /\ pending # <<>> /\ Last(pending) = Partner(c)
         THEN close_bracket_scan(y, x + len_utf8(c), Tail(rest), Front(pending))
         ELSE IF c \in Closers
         THEN Some(Point(y, x))
         ELSE close_bracket_scan(y, x + len_utf8(c), Tail(rest), pending)

close_bracket(point) ==
    IF point.y < Len(text)
    THEN close_bracket_scan(point.y, point.x, From(Line(point.y), point.x), <<>>)
    ELSE None

RECURSIVE open_bracket_scan(_, _, _, _)
\* the loops of open_bracket: pre the characters of row y before byte x
open_bracket_scan(y, x, pre, pending) ==
    IF pre = <<>>
    THEN IF y > 0 THEN open_bracket_scan(y - 1, len(Line(y - 1)), Line(y - 1), pending)
         ELSE None
    ELSE LET c == Last(pre) IN
         IF c \in Closers
         THEN open_bracket_scan(y, x - len_utf8(c), Front(pre), Append(pending, c))
         ELSE IF c \in Openers /\ pending # <<>> /\ Last(pending) = Partner(c)
         THEN open_bracket_scan(y, x - len_utf8(c), Front(pre), Front(pending))
         ELSE IF c \in Openers
         THEN Some(Point(y, x - len_utf8(c)))
         ELSE open_bracket_scan(y, x - len_utf8(c), Front(pre), pending)

open_bracket(point) ==
    open_bracket_scan(point.y, point.x, Upto(Line(point.y), point.x), <<>>)

RECURSIVE close_bracket_pending_scan(_, _, _)
\* the same loops, for what `pending` holds when close_bracket returns
\* (empty when it returns None)
close_bracket_pending_scan(y, rest, pending) ==
    IF rest = <<>>
    THEN IF y + 1 < Len(text) THEN close_bracket_pending_scan(y + 1, Line(y + 1), pending)
         ELSE <<>>
    ELSE LET c == Head(rest) IN
         IF c \in Openers
         THEN close_bracket_pending_scan(y, Tail(rest), Append(pending, c))
         ELSE IF c \in Closers /\ pending # <<>> /\ Last(pending) = Partner(c)
         THEN close_bracket_pending_scan(y, Tail(rest), Front(pending))
         ELSE IF c \in Closers
         THEN pending
         ELSE close_bracket_pending_scan(y, Tail(rest), pending)

close_bracket_pending(point) ==
    IF point.y < Len(text)
    THEN close_bracket_pending_scan(point.y, From(Line(point.y), point.x), <<>>)
    ELSE <<>>

RECURSIVE open_bracket_pending_scan(_, _, _)
\* the same for open_bracket
open_bracket_pending_scan(y, pre, pending) ==
    IF pre = <<>>
    THEN IF y > 0 THEN open_bracket_pending_scan(y - 1, Line(y - 1), pending)
         ELSE <<>>
    ELSE LET c == Last(pre) IN
         IF c \in Closers
         THEN open_bracket_pending_scan(y, Front(pre), Append(pending, c))
         ELSE IF c \in Openers /\ pending # <<>> /\ Last(pending) = Partner(c)
         THEN open_bracket_pending_scan(y, Front(pre), Front(pending))
         ELSE IF c \in Openers
         THEN pending
         ELSE open_bracket_pending_scan(y, Front(pre), pending)

open_bracket_pending(point) ==
    open_bracket_pending_scan(point.y, Upto(Line(point.y), point.x), <<>>)

start_of_file == Point(0, 0)

end_of_file == end_of_line(Len(text) - 1)

RECURSIVE start_of_para(_)
start_of_para(point) ==
    IF point.y > 1
    THEN IF Line(point.y) # <<>> /\ Line(point.y - 1) = <<>>
         THEN start_of_line(point.y)
         ELSE start_of_para(Point(point.y - 1, point.x))
    ELSE start_of_file

RECURSIVE end_of_para(_)
end_of_para(point) ==
    IF point.y + 1 < Len(text)
    THEN IF Line(point.y) # <<>> /\ Line(point.y + 1) = <<>>
         THEN end_of_line(point.y)
         ELSE end_of_para(Point(point.y + 1, point.x))
    ELSE end_of_file

move_bracket_inside(s) ==
    LET n == next_char(into(s.cursor)) IN
    IF is_some(n) /\ unwrap(n) \in Closers
    THEN LET o == open_bracket(into(s.cursor))
         IN  IF is_some(o) THEN move_cursor(s, Point(unwrap(o).y, unwrap(o).x + 1)) ELSE s
    ELSE LET c == close_bracket(into(s.cursor))
         IN  IF is_some(c) THEN move_cursor(s, unwrap(c)) ELSE s

move_bracket_outside(s) ==
    LET n == next_char(into(s.cursor))
        p == prev_char(into(s.cursor))
    IN  IF is_some(n) /\ unwrap(n) \in Openers
        THEN LET c == close_bracket(Point(s.cursor.y, s.cursor.x + 1))
             IN  IF is_some(c) THEN move_cursor(s, Point(unwrap(c).y, unwrap(c).x + 1))
                 ELSE s
        ELSE IF is_some(p) /\ unwrap(p) \in Closers
        THEN LET o == open_bracket(Point(s.cursor.y, s.cursor.x - 1))
             IN  IF is_some(o) THEN move_cursor(s, unwrap(o)) ELSE s
        ELSE s

\* a faulty variant: the search starts on the cursor's own row
move_start_of_para_in_place(s) == move_cursor(s, start_of_para(into(s.cursor)))

move_start_of_para(s) ==
    LET t == move_up(s, 1) IN move_cursor(t, start_of_para(into(t.cursor)))

move_end_of_para(s) ==
    LET t == move_down(s, 1) IN move_cursor(t, end_of_para(into(t.cursor)))

move_start_of_file(s) == move_cursor(s, start_of_file)

move_end_of_file(s) == move_cursor(s, end_of_file)

begin_edit(s) == [s EXCEPT !.mode = "Insert"]

end_edit(s) == [s EXCEPT !.mode = "Normal"]

\* self.move_cursor(left); self.anchor = Some(self.cursor); self.move_cursor(right)
SelectRange(s, left, right) ==
    LET t == move_cursor(s, left)
    IN  move_cursor([t EXCEPT !.anchor = Some(t.cursor)], right)

select_word(s, cls) ==
    LET left == left_word(cls, into(s.cursor)) IN
    IF is_some(left)
    THEN LET right == right_word(cls, into(s.cursor))
         IN  IF is_some(right) THEN SelectRange(s, unwrap(left), unwrap(right)) ELSE s
    ELSE s

\* a faulty variant: the selection starts at the opening bracket, not one past it
select_inside_brackets_at_open(s) ==
    LET open == open_bracket(into(s.cursor)) IN
    IF is_some(open)
    THEN LET close == close_bracket(into(s.cursor))
         IN  IF is_some(close) THEN SelectRange(s, unwrap(open), unwrap(close)) ELSE s
    ELSE s

select_inside_brackets(s) ==
    LET open == open_bracket(into(s.cursor)) IN
    IF is_some(open)
    THEN LET close == close_bracket(into(s.cursor))
         IN  IF is_some(close)
             THEN SelectRange(s, Point(unwrap(open).y, unwrap(open).x + 1), unwrap(close))
             ELSE s
    ELSE s

invert_selection(s) ==
    IF is_some(s.anchor)
    THEN [s EXCEPT !.anchor = Some(s.cursor), !.cursor = unwrap(s.anchor)]
    ELSE s

grow_selection(s) ==
    move_right(invert_selection(move_left(invert_selection(s), 1)), 1)

\* select_outside_brackets up to its call of grow_selection
outside_brackets_before_grow(s) ==
    LET n == next_char(into(s.cursor))
        p == prev_char(into(s.cursor))
        t == IF is_some(n) /\ unwrap(n) \in Openers THEN move_right(s, 1)
             ELSE IF is_some(p) /\ unwrap(p) \in Closers THEN move_left(s, 1)
             ELSE s
    IN  select_inside_brackets(t)

select_outside_brackets(s) == grow_selection(outside_brackets_before_grow(s))

select_inside_quotes(s) ==
    LET open == open_quote(into(s.cursor)) IN
    IF is_some(open)
    THEN LET close == close_quote(into(s.cursor))
         IN  IF is_some(close)
             THEN SelectRange(s, Point(unwrap(open).y, unwrap(open).x + 1), unwrap(close))
             ELSE s
    ELSE s

\* select_outside_quotes up to its call of grow_selection
outside_quotes_before_grow(s) ==
    LET p == prev_char(into(s.cursor))
        t == IF is_some(p) /\ unwrap(p) = "\"" THEN move_left(s, 1) ELSE s
    IN  select_inside_quotes(t)

select_outside_quotes(s) == grow_selection(outside_quotes_before_grow(s))

select_line(s) ==
    LET t == move_start_of_line(s)
    IN  move_end_of_line([t EXCEPT !.anchor = Some(t.cursor)])

select_para(s) ==
    LET t == move_cursor(s, start_of_para(into(s.cursor)))
        u == [t EXCEPT !.anchor = Some(t.cursor)]
    IN  move_cursor(u, end_of_para(into(u.cursor)))

----------------------------------------------------------------------------
(* move_next_match and move_prev_match are called by handle (state.rs 100,  *)
(* 101) and defined nowhere in the source; the keymap of the specification  *)
(* calls them next/previous match.  They are modelled as moving the cursor  *)
(* to the start of the nearest match after, or before, the cursor, and as   *)
(* leaving the state alone when there is none.                              *)

MatchStarts(s) ==
    UNION {{Point(y, s.ann[y + 1].matches[i][1]) : i \in 1..Len(s.ann[y + 1].matches)} :
              y \in 0..(Len(text) - 1)}

move_next_match(s) ==
    LET after == {p \in MatchStarts(s) : point_lt(into(s.cursor), p)}
    IN  IF after = {} THEN s
        ELSE move_cursor(s, CHOOSE p \in after : \A q \in after : point_le(p, q))

move_prev_match(s) ==
    LET before == {p \in MatchStarts(s) : point_lt(p, into(s.cursor))}
    IN  IF before = {} THEN s
        ELSE move_cursor(s, CHOOSE p \in before : \A q \in before : point_le(q, p))

----------------------------------------------------------------------------
(* State::handle *)

\* KeyCode: Char(c) is the string c; "z" stands for every key handle has no
\* arm for
Keys ==
    {"q", "w", "e", "r", "y", "u", "i", "o", "p", "s", "f", "h", "j", "k", "l",
     "n", "m", ",", ".", "/", "Q", "W", "E", "R", "Y", "U", "I", "O", "P", "H",
     "J", "K", "L", "Esc", " ", "Left", "Down", "Up", "Right", "z"}

\* a faulty variant: Esc ends the selection and the search at once
handle_esc_both(s) == cancel_search([s EXCEPT !.anchor = None])

\* the KeyCode::Esc arm of Mode::Normal
handle_esc(s) ==
    IF is_some(s.anchor) THEN [s EXCEPT !.anchor = None] ELSE cancel_search(s)

\* the arms of Mode::Normal
handle_normal(s, k) ==
    CASE k = "q" -> select_inside_quotes(s)
      [] k = "w" -> select_word(s, "narrow")
      [] k = "e" -> select_inside_brackets(s)
      [] k = "r" -> select_line(s)
      [] k = "y" -> move_start_of_line(s)
      [] k = "u" -> move_left_word(s, "narrow")
      [] k = "i" -> move_right_word(s, "narrow")
      [] k = "o" -> move_end_of_line(s)
      [] k = "p" -> move_bracket_inside(s)
      [] k = "s" -> [s EXCEPT !.anchor = Some(s.cursor)]
      [] k = "f" -> begin_edit(s)
      [] k \in {"h", "Left"} -> move_left(s, 1)
      [] k \in {"j", "Down"} -> move_down(s, 1)
      [] k \in {"k", "Up"} -> move_up(s, 1)
      [] k \in {"l", "Right"} -> move_right(s, 1)
      [] k = "n" -> move_start_of_file(s)
      [] k = "m" -> move_next_match(s)
      [] k = "," -> move_prev_match(s)
      [] k = "." -> move_end_of_file(s)
      [] k = "/" -> State_search(s)
      [] k = "Q" -> select_outside_quotes(s)
      [] k = "W" -> select_word(s, "wide")
      [] k = "E" -> select_outside_brackets(s)
      [] k = "R" -> select_para(s)
      [] k = "Y" -> move_start_of_para(s)
      [] k = "U" -> move_left_word(s, "wide")
      [] k = "I" -> move_right_word(s, "wide")
      [] k = "O" -> move_end_of_para(s)
      [] k = "P" -> move_bracket_outside(s)
      [] k = "H" -> move_left(s, 5)
      [] k = "J" -> move_down(s, 5)
      [] k = "K" -> move_up(s, 5)
      [] k = "L" -> move_right(s, 5)
      [] k = "Esc" -> handle_esc(s)
      [] k = " " -> [s EXCEPT !.mode = "System"]
      [] OTHER -> s

\* a faulty variant: a key other than Esc moves the cursor as it does in Normal mode
handle_insert_moves(s, k) ==
    IF k = "Esc" THEN end_edit(s)
    ELSE IF k = "l" /\ text # <<>> THEN move_right(s, 1)
    ELSE s

\* the arms of Mode::Insert
handle_insert(s, k) == IF k = "Esc" THEN end_edit(s) ELSE s

\* a faulty variant: the overlay stays until it is left with Esc
handle_system_stays(s, k) == IF k = "Esc" THEN [s EXCEPT !.mode = "Normal"] ELSE s

\* the arm of Mode::System that returns true
handle_system(s, k) == [s EXCEPT !.mode = "Normal"]

\* the keys whose Normal arm indexes self.text, at the cursor's row or at
\* text.len() - 1, before anything else: with no line every one of them panics
IndexesText(s, k) ==
    /\ k \notin {"s", "f", "m", ",", "Esc", " ", "z"}
    /\ k = "/" => is_some(s.anchor)

Self == [mode |-> mode, cursor |-> cursor, anchor |-> anchor, search |-> search,
         ann |-> ann]

\* the state record t becomes the state
Becomes(t) ==
    /\ mode' = t.mode
    /\ cursor' = t.cursor
    /\ anchor' = t.anchor
    /\ search' = t.search
    /\ ann' = t.ann

\* the arm of `match event.code` that key k takes in mode m, named by its
\* (first) pattern
ArmOf(m, k) ==
    CASE m = "Normal" ->
            (CASE k = "Left" -> "h" [] k = "Down" -> "j" [] k = "Up" -> "k"
               [] k = "Right" -> "l" [] k = "z" -> "_" [] OTHER -> k)
      [] m = "Insert" -> IF k = "Esc" THEN "Esc" ELSE "_"
      [] m = "System" -> IF k = "q" THEN "q" ELSE "_"

\* handle matches on self.mode and event.code
Dispatched(k) ==
    /\ pc = "loop"
    /\ arm' = ArmOf(mode, k)
    /\ pmode' = mode
    /\ psearch' = search
    /\ text' = text

\* a key in Normal mode, handle returning true
HandleNormal(k) ==
    /\ Dispatched(k)
    /\ mode = "Normal"
    /\ ~(text = <<>> /\ IndexesText(Self, k))
    /\ Becomes(handle_normal(Self, k))
    /\ pc' = "loop"

\* a key in Normal mode whose arm indexes a buffer of no lines: the thread
\* panics inside handle
HandlePanic(k) ==
    /\ Dispatched(k)
    /\ mode = "Normal"
    /\ text = <<>> /\ IndexesText(Self, k)
    /\ pc' = "panic"
    /\ UNCHANGED <<mode, cursor, anchor, search, ann>>

HandleInsert(k) ==
    /\ Dispatched(k)
    /\ mode = "Insert"
    /\ Becomes(handle_insert(Self, k))
    /\ pc' = "loop"

\* a key in System mode other than 'q', handle returning true
HandleSystem(k) ==
    /\ Dispatched(k)
    /\ mode = "System"
    /\ k # "q"
    /\ Becomes(handle_system(Self, k))
    /\ pc' = "loop"

\* 'q' in System mode: handle returns false and main leaves its loop
HandleQuit(k) ==
    /\ Dispatched(k)
    /\ mode = "System"
    /\ k = "q"
    /\ pc' = "done"
    /\ UNCHANGED <<mode, cursor, anchor, search, ann>>

----------------------------------------------------------------------------
(* ui (src/src/ui.rs).  A frame is what one call of draw queues on `out`,   *)
(* as a sequence of instructions <<name, arguments...>>, with the offset    *)
(* draw_text computes and the way the call ends: "Ok", "Err" (an error is   *)
(* returned) or "panic".  size is (columns, rows) as in the source.  Writes *)
(* to `out` are taken to succeed.                                           *)

\* the terminal heights below which `size.1 as usize - 2` overflows are left out
MinHeight == 2

\* the columns draw_status takes off the width to pad the file name
StatusFixed == 16

Hide == <<"Hide">>
Show == <<"Show">>
MoveTo(col, row) == <<"MoveTo", col, row>>
SetForegroundColor(colour) == <<"SetForegroundColor", colour>>
SetBackgroundColor(colour) == <<"SetBackgroundColor", colour>>
PrintOf(what) == <<"Print", what>>
ResetColor == <<"ResetColor">>
ClearUntilNewLine == <<"Clear", "UntilNewLine">>

\* Line::new: the bytes of the matches of COMMENT ("//.*"), from the first
\* "//" of the line to its end
comment_indices(l) ==
    LET starts == {i \in 1..(Len(l) - 1) : l[i] = "/" /\ l[i + 1] = "/"}
    IN  IF starts = {} THEN {}
        ELSE LET first == CHOOSE i \in starts : \A j \in starts : i <= j
             IN  len(SubSeq(l, 1, first - 1))..(len(l) - 1)

\* a faulty variant: the window follows the cursor past the end of the buffer
draw_text_offset_unclamped(s, sz) ==
    LET h == sz[2] - 2 IN
    IF s.cursor.y < h \div 2 \/ Len(text) <= h THEN 0 ELSE s.cursor.y - h \div 2

\* a faulty variant: the window never scrolls
draw_text_offset_top(s, sz) == 0

\* the offset of draw_text
draw_text_offset(s, sz) ==
    LET h == sz[2] - 2 IN
    IF s.cursor.y < h \div 2 \/ Len(text) <= h THEN 0
    ELSE IF s.cursor.y - h \div 2 + h <= Len(text) THEN s.cursor.y - h \div 2
    ELSE Len(text) - h

\* the colours draw_text sets before it prints the character at byte x of
\* buffer row py
colours(s, py, x) ==
    LET sel == selection(s)
        p == Point(py, x)
    IN  (IF x \in comment_indices(Line(py))
         THEN <<SetForegroundColor("DarkRed")>> ELSE <<>>)
        \o (IF x \in s.ann[py + 1].match_indices
            THEN <<SetBackgroundColor("Red")>> ELSE <<>>)
        \o (IF is_some(sel) /\ point_le(into(unwrap(sel)[1]), p)
                            /\ point_lt(p, into(unwrap(sel)[2]))
            THEN <<SetBackgroundColor("Grey")>> ELSE <<>>)

RECURSIVE draw_chars(_, _, _, _, _, _)
\* the inner loop of draw_text: cs the characters still to draw (the line's,
\* then one space), x the byte offset of the first, w the width drawn so far
draw_chars(s, sz, py, cs, x, w) ==
    IF cs = <<>> THEN [out |-> <<>>, w |-> w]
    ELSE LET c == Head(cs)
             w2 == w + width(c)
         IN  IF w2 >= sz[1] THEN [out |-> <<>>, w |-> w2]
             ELSE LET rest == draw_chars(s, sz, py, Tail(cs), x + len_utf8(c), w2)
                  IN  [out |-> colours(s, py, x) \o <<PrintOf(c), ResetColor>> \o rest.out,
                       w |-> rest.w]

\* one turn of the outer loop of draw_text: buffer row py on screen row y
draw_line(s, sz, y, py) ==
    LET cs == draw_chars(s, sz, py, Line(py) \o <<" ">>, 0, 0)
    IN  <<MoveTo(0, y)>> \o cs.out
        \o (IF cs.w < sz[1] THEN <<ClearUntilNewLine>> ELSE <<>>)

RECURSIVE draw_lines(_, _, _, _, _)
\* the outer loop of draw_text over s.text[offset..end], from screen row y
draw_lines(s, sz, offset, end, y) ==
    IF offset + y >= end THEN <<>>
    ELSE draw_line(s, sz, y, offset + y) \o draw_lines(s, sz, offset, end, y + 1)

draw_text(s, sz) ==
    LET h == sz[2] - 2
        offset == draw_text_offset(s, sz)
        end == IF offset + h < Len(text) THEN offset + h ELSE Len(text)
    IN  [result |-> "Ok", offset |-> offset, out |-> draw_lines(s, sz, offset, end, 0)]

\* draw_status.  `size.0 as usize - 16` overflows on a terminal narrower than
\* 16 columns: a debug build panics there, a release build wraps and pads
\* the file name without end; either way the call does not return.
draw_status(s, sz) ==
    IF sz[1] < StatusFixed
    THEN [result |-> "panic",
          out |-> <<MoveTo(0, sz[2] - 2), SetBackgroundColor("Grey")>>]
    ELSE [result |-> "Ok",
          out |-> <<MoveTo(0, sz[2] - 2), SetBackgroundColor("Grey"),
                    PrintOf(<<s.mode, s.cursor.y + 1, s.cursor.x + 1>>),
                    ResetColor, MoveTo(0, sz[2] - 1)>>]

draw_search(s, sz) ==
    LET to == <<MoveTo(0, sz[2] - 1)>> IN
    IF is_some(s.search)
    THEN LET r == unwrap(s.search) IN
         IF r.ok
         THEN [result |-> "Ok",
               out |-> to \o <<PrintOf("/"), PrintOf(r.re), ClearUntilNewLine>>]
         ELSE IF r.err = "Syntax"
         THEN [result |-> "Ok",
               out |-> to \o <<PrintOf("! "), PrintOf(r.err), ClearUntilNewLine>>]
         ELSE [result |-> "Err", out |-> to]
    ELSE [result |-> "Ok", out |-> to \o <<ClearUntilNewLine>>]

\* draw: each `?` returns the first failure; s.cursor_width() indexes
\* s.text[s.cursor.y] and `s.cursor.y - offset` is a usize subtraction
draw(s, sz) ==
    LET t == draw_text(s, sz)
        st == draw_status(s, sz)
        se == draw_search(s, sz)
    IN  IF st.result # "Ok"
        THEN [result |-> st.result, offset |-> t.offset,
              out |-> <<Hide>> \o t.out \o st.out]
        ELSE IF se.result # "Ok"
        THEN [result |-> se.result, offset |-> t.offset,
              out |-> <<Hide>> \o t.out \o st.out \o se.out]
        ELSE IF s.cursor.y >= Len(text) \/ s.cursor.y < t.offset
        THEN [result |-> "panic", offset |-> t.offset,
              out |-> <<Hide>> \o t.out \o st.out \o se.out]
        ELSE [result |-> "Ok", offset |-> t.offset,
              out |-> <<Hide>> \o t.out \o st.out \o se.out
                      \o <<MoveTo(cursor_width(s), s.cursor.y - t.offset), Show>>]

\* no frame: the specifications of State alone leave the drawing out, since
\* draw takes &State and writes nothing that handle reads
NoFrame == [result |-> "Ok", offset |-> 0, out |-> <<>>]

Undrawn == size = <<0, 0>> /\ frame = NoFrame

NoDraw == UNCHANGED <<size, frame>>

\* main draws after the event with the size it holds
Drawn == size' = size /\ frame' = draw(Self', size)

\* Regex::new returning Err(e).  The one error the escaped literal of a
\* selection can give is CompiledTooBig, when the selection is so long that
\* its program exceeds the size limit; the buffers here are far too short
\* for that, so the outcome is chosen and not computed.
RegexErr(e) == [ok |-> FALSE, err |-> e]

RegexErrors == {"CompiledTooBig"}

\* State::search from the point where Regex::new has returned Err(e)
search_failed(s, e) ==
    [s EXCEPT !.search = Some(RegexErr(e)),
              !.ann = AnnotateAll(s.ann, SearchRegex(Some(RegexErr(e))))]

\* '/' in Normal mode with a selection on one row, when Regex::new fails
HandleSearchFails(e) ==
    /\ Dispatched("/")
    /\ mode = "Normal"
    /\ is_some(selection(Self))
    /\ unwrap(selection(Self))[1].y = unwrap(selection(Self))[2].y
    /\ Becomes(search_failed(Self, e))
    /\ pc' = "loop"

\* Event::Resize(x, y)
Resize(sz) ==
    /\ pc = "loop"
    /\ size' = sz
    /\ frame' = draw(Self, sz)
    /\ UNCHANGED <<text, ann, mode, cursor, anchor, search, pc, arm, pmode, psearch>>

----------------------------------------------------------------------------
(* State::new, for the files the model loads *)

Buffers ==
    { <<>>,
      << <<"a", " ", "a">>, <<>>, <<"(", "U00E9", ")">> >>,
      << <<"\"", "U4E2D", "\"">>, <<"U0301", "[">> >> }

\* State::new: one Line::new(s, None) per line of the file
New(file) ==
    /\ text = file
    /\ ann = [i \in 1..Len(file) |-> annotate(file[i], NoAnnotations, None)]
    /\ mode = "Normal"
    /\ cursor = Cursor(0, 0, 0)
    /\ anchor = None
    /\ search = None
    /\ pc = "loop"
    /\ arm = ""
    /\ pmode = "Normal"
    /\ psearch = None

Init == \E file \in Buffers : New(file) /\ Undrawn

Next ==
    \E k \in Keys :
        \/ HandleNormal(k) /\ NoDraw
        \/ HandlePanic(k) /\ NoDraw
        \/ HandleInsert(k) /\ NoDraw
        \/ HandleSystem(k) /\ NoDraw
        \/ HandleQuit(k) /\ NoDraw

Spec == Init /\ [][Next]_vars

----------------------------------------------------------------------------
(* Properties of every reachable state *)

\* c is a position of the buffer: an existing row, and a character boundary
\* of that row
ValidCursor(c) ==
    /\ c.y < Len(text)
    /\ 0 <= c.x /\ c.x <= len(Line(c.y))
    /\ is_char_boundary(Line(c.y), c.x)

\* With at least one line loaded, cursor and anchor are positions of the
\* buffer, so no slice the handlers take is off a character boundary.
PositionsValidWhenLoaded ==
    text # <<>> => ValidCursor(cursor) /\ (is_some(anchor) => ValidCursor(unwrap(anchor)))

\* The annotations are those of the search state: search and cancel_search
\* annotate every line.
AnnotationsFollowSearch ==
    ann = [i \in 1..Len(text) |-> annotate(text[i], NoAnnotations, SearchRegex(search))]

\* C1: in every reachable state, for every loaded buffer including the one
\* of a file with no lines, the cursor is on an existing row, at a byte
\* offset within that row's string that is a character boundary, and so is
\* the anchor when it is set.
C1_PositionsValid ==
    ValidCursor(cursor) /\ (is_some(anchor) => ValidCursor(unwrap(anchor)))

----------------------------------------------------------------------------
(* C2 *)

CharsOfText == UNION {{text[i][j] : j \in 1..Len(text[i])} : i \in 1..Len(text)}

\* the row of the cursor holds no character the classifier calls wordish
NoWordOnRow(cls) ==
    \A j \in 1..Len(Line(cursor.y)) : ~wordish(cls, Line(cursor.y)[j])

\* no target for the key of arm a, read as narrowly as the claim allows: no
\* closing bracket anywhere in the buffer (so no bracket pair), no quote
\* anywhere in the buffer, no wordish character on the cursor's row
NoTarget(a) ==
    /\ text # <<>>
    /\ a \in {"p", "P", "e", "E"} => CharsOfText \cap Closers = {}
    /\ a \in {"q", "Q"} => "\"" \notin CharsOfText
    /\ a \in {"u", "i", "w"} => NoWordOnRow("narrow")
    /\ a \in {"U", "I", "W"} => NoWordOnRow("wide")

\* C2: a bracket, quote or word motion or selection key handled in Normal
\* mode with no valid target leaves the cursor's row and byte column and the
\* anchor as they were.
C2_NoTargetNoChange ==
    [][(mode = "Normal"
        /\ arm' \in {"p", "P", "u", "U", "i", "I", "q", "Q", "w", "W", "e", "E"}
        /\ NoTarget(arm'))
       => (cursor'.y = cursor.y /\ cursor'.x = cursor.x /\ anchor' = anchor)]_vars

----------------------------------------------------------------------------
(* C3 *)

\* C3: with an anchor set, selection() returns anchor and cursor in one of
\* the two orders, the first at or before the second in (row, byte offset)
\* order, whatever their target widths.
C3_SelectionOrdered ==
    is_some(anchor) =>
        LET sel == unwrap(selection(Self)) IN
        /\ sel \in {<<unwrap(anchor), cursor>>, <<cursor, unwrap(anchor)>>}
        /\ point_le(into(sel[1]), into(sel[2]))

\* anchor and cursor at one row and byte offset, the anchor's target width
\* the greater: the derived order then puts the cursor first
C3_Witness ==
    /\ is_some(anchor)
    /\ unwrap(anchor).y = cursor.y /\ unwrap(anchor).x = cursor.x
    /\ unwrap(anchor).w > cursor.w

----------------------------------------------------------------------------
(* C4, C5, C8: search and Esc *)

AllAnnotationsEmpty(a) == \A i \in 1..Len(text) : a[i] = NoAnnotations

\* the regex of a Some(Ok(regex)) search state matches somewhere in the buffer
MatchesSomewhere(srch) ==
    /\ is_some(SearchRegex(srch))
    /\ \E i \in 1..Len(text) : find_iter(unwrap(srch), text[i]) # <<>>

\* C4: when cancel_search runs (Esc in Normal mode with no anchor), whatever
\* the search triggered before had matched, the search state is None and
\* every line's matches and match_indices are empty afterwards.
C4_CancelClearsSearch ==
    [][(mode = "Normal" /\ arm' = "Esc" /\ ~is_some(anchor))
       => (search' = None /\ AllAnnotationsEmpty(ann'))]_vars

\* cancel_search has run on a search that had matches
C4_Witness ==
    /\ pmode = "Normal" /\ arm = "Esc"
    /\ MatchesSomewhere(psearch)
    /\ search = None /\ AllAnnotationsEmpty(ann)

\* C5: '/' in Normal mode leaves cursor, anchor and mode as they were, and
\* with no anchor, or with anchor and cursor on different rows, it also
\* leaves the search state and every line's annotations as they were.
C5_SearchFrame ==
    [][(mode = "Normal" /\ arm' = "/")
       => /\ cursor' = cursor /\ anchor' = anchor /\ mode' = mode
          /\ (~is_some(anchor) \/ unwrap(anchor).y # cursor.y)
                => (search' = search /\ ann' = ann)]_vars

\* '/' was handled with the anchor on another row than the cursor, and the
\* search made before, which has matches, is still the search state
C5_Witness ==
    /\ pmode = "Normal" /\ arm = "/"
    /\ is_some(anchor) /\ unwrap(anchor).y # cursor.y
    /\ MatchesSomewhere(search) /\ ~AllAnnotationsEmpty(ann)

\* C8: Esc in Normal mode leaves cursor and mode as they were; with an
\* anchor set it clears the anchor and leaves the search state and the
\* annotations as they were; with no anchor it sets the search state to None
\* and empties every line's annotations.
C8_EscNormal ==
    [][(mode = "Normal" /\ arm' = "Esc")
       => /\ cursor' = cursor /\ mode' = mode
          /\ IF is_some(anchor)
             THEN anchor' = None /\ search' = search /\ ann' = ann
             ELSE anchor' = None /\ search' = None /\ AllAnnotationsEmpty(ann')]_vars

\* the first Esc has ended the selection only: the search with its matches
\* is still there
C8_Witness ==
    /\ pmode = "Normal" /\ arm = "Esc"
    /\ anchor = None
    /\ MatchesSomewhere(search) /\ ~AllAnnotationsEmpty(ann)

----------------------------------------------------------------------------
(* C6, C7: modes *)

\* C6: handle returns false exactly for 'q' in System mode; every other key
\* in System mode sets the mode to Normal; in Normal mode space sets the
\* mode to System, 'f' to Insert and no other key changes it; in Insert mode
\* only Esc changes the mode, to Normal; so the stop signal comes right
\* after a space handled in Normal mode.
C6_ModeTransitions ==
    [][/\ (pc' = "done") <=> (mode = "System" /\ arm' = "q")
       /\ (mode = "System" /\ arm' # "q") => (mode' = "Normal" /\ pc' = "loop")
       /\ mode = "Normal" =>
             mode' = (IF arm' = " " THEN "System"
                      ELSE IF arm' = "f" THEN "Insert" ELSE "Normal")
       /\ mode = "Insert" => mode' = (IF arm' = "Esc" THEN "Normal" ELSE "Insert")
       /\ (pc' = "done") => (arm = " " /\ pmode = "Normal")]_vars

\* the stop signal was given
C6_Witness == pc = "done" /\ pmode = "System" /\ arm = "q"

\* C7: a key handled in Insert or System mode changes neither cursor, anchor,
\* search state, text nor annotations; in Insert mode a key other than Esc
\* changes nothing at all.
C7_InsertSystemFrame ==
    [][(mode \in {"Insert", "System"})
       => /\ cursor' = cursor /\ anchor' = anchor /\ search' = search
          /\ text' = text /\ ann' = ann
          /\ (mode = "Insert" /\ arm' # "Esc") => mode' = mode]_vars

\* a key other than Esc was handled in Insert mode, with a selection and a
\* search there to be changed and the cursor not at the end of its row
C7_Witness ==
    /\ pmode = "Insert" /\ arm = "_" /\ mode = "Insert"
    /\ is_some(anchor) /\ is_some(search)
    /\ cursor.x < len(Line(cursor.y))

----------------------------------------------------------------------------
(* One key handled from a chosen state: the scenarios, and the bracket     *)
(* motions on well-formed buffers.                                          *)

\* the positions of the buffer file, each with the target width a motion
\* that arrives through move_cursor leaves
PositionsOf(file) ==
    UNION {{Cursor(y - 1, len(SubSeq(file[y], 1, i)), str_width(SubSeq(file[y], 1, i))) :
               i \in 0..Len(file[y])} : y \in 1..Len(file)}

\* State::new, and motions that have brought the cursor to c
NewAt(file, c) ==
    /\ text = file
    /\ ann = [i \in 1..Len(file) |-> annotate(file[i], NoAnnotations, None)]
    /\ mode = "Normal"
    /\ cursor = c
    /\ anchor = None
    /\ search = None
    /\ pc = "loop"
    /\ arm = ""
    /\ pmode = "Normal"
    /\ psearch = None

\* the first key after that
FirstKey == arm = "" /\ \E k \in Keys : HandleNormal(k) /\ NoDraw

\* a nested bracket pair on row 0 and a quoted character on row 1
BracketsAndQuotes == << <<"(", "[", "]", ")">>, <<"\"", "U00E9", "\"">> >>

ScenarioBuffers ==
    { << <<"a", "b", "c", "(", "d", "e", "f", ")", "g", "h", "i">> >>,
      << <<"f", "o", "o">>, <<>>, <<"b", "a", "r">> >>,
      BracketsAndQuotes }

InitScenario ==
    \E file \in ScenarioBuffers : \E c \in PositionsOf(file) : NewAt(file, c) /\ Undrawn

SpecScenario == InitScenario /\ [][FirstKey]_vars

----------------------------------------------------------------------------
(* C9 *)

AbcDefGhi == << <<"a", "b", "c", "(", "d", "e", "f", ")", "g", "h", "i">> >>

\* the selection is anchor at byte a, cursor at byte b, both on row 0
SelectionIs(anc, cur, a, b) ==
    /\ is_some(anc) /\ unwrap(anc).y = 0 /\ unwrap(anc).x = a
    /\ cur.y = 0 /\ cur.x = b

\* C9 as stated: with buffer ["abc(def)ghi"], no anchor and the cursor at
\* row 0 byte 0, 'e' gives anchor at byte 4 and cursor at byte 7, and 'E'
\* gives anchor at byte 3 and cursor at byte 8.
C9_FromByte0 ==
    [][(text = AbcDefGhi /\ anchor = None /\ cursor.y = 0 /\ cursor.x = 0)
       => /\ arm' = "e" => SelectionIs(anchor', cursor', 4, 7)
          /\ arm' = "E" => SelectionIs(anchor', cursor', 3, 8)]_vars

\* C9 amended: the same with the cursor at any byte from 4 to 7 of row 0,
\* between the brackets.
C9_FromInside ==
    [][(text = AbcDefGhi /\ anchor = None /\ cursor.y = 0 /\ cursor.x \in 4..7)
       => /\ arm' = "e" => SelectionIs(anchor', cursor', 4, 7)
          /\ arm' = "E" => SelectionIs(anchor', cursor', 3, 8)]_vars

\* 'e' has selected def: with no anchor before, that comes only from a
\* cursor that was between the brackets
C9_Witness ==
    /\ text = AbcDefGhi /\ arm = "e"
    /\ SelectionIs(anchor, cursor, 4, 7)

----------------------------------------------------------------------------
(* C10: buffers of two rows whose brackets are well-formed *)

MaxBracketLen == 5

BracketAlphabet == {"(", ")", "[", "]", "U00E9"}

RECURSIVE WellFormed(_)
\* properly nested and matched: empty, or a character that is no bracket
\* followed by a well-formed string, or an opener, a well-formed string, its
\* closer and a well-formed string
WellFormed(str) ==
    \/ str = <<>>
    \/ /\ str # <<>>
       /\ Head(str) \notin Openers \cup Closers
       /\ WellFormed(Tail(str))
    \/ /\ str # <<>>
       /\ Head(str) \in Openers
       /\ \E j \in 2..Len(str) :
             /\ str[j] = Partner(Head(str))
             /\ WellFormed(SubSeq(str, 2, j - 1))
             /\ WellFormed(SubSeq(str, j + 1, Len(str)))

WellFormedBuffers ==
    UNION {{<<SubSeq(str, 1, cut), SubSeq(str, cut + 1, Len(str))>> : cut \in 0..Len(str)} :
              str \in {t \in UNION {[1..n -> BracketAlphabet] : n \in 0..MaxBracketLen} :
                          WellFormed(t)}}

InitBrackets ==
    \E file \in WellFormedBuffers : \E c \in PositionsOf(file) : NewAt(file, c) /\ Undrawn

SpecBrackets == InitBrackets /\ [][FirstKey]_vars

\* the two rows as one string, the number of its characters before the
\* cursor, and the position at which its i-th character starts
Flat == text[1] \o text[2]

FlatBefore(c) ==
    IF c.y = 0 THEN CharsBefore(text[1], c.x) ELSE Len(text[1]) + CharsBefore(text[2], c.x)

PointOfChar(i) ==
    IF i <= Len(text[1]) THEN Point(0, len(SubSeq(text[1], 1, i - 1)))
    ELSE Point(1, len(SubSeq(text[2], 1, i - Len(text[1]) - 1)))

\* characters i and j of Flat are an opener and its matching closer
Matched(i, j) ==
    /\ i < j
    /\ Flat[i] \in Openers /\ Flat[j] = Partner(Flat[i])
    /\ WellFormed(SubSeq(Flat, i + 1, j - 1))

\* the pairs that enclose a cursor with n characters before it: opener
\* before the cursor, closer at or after it
Enclosing(n) == {pr \in (1..Len(Flat)) \X (1..Len(Flat)) :
                    Matched(pr[1], pr[2]) /\ pr[1] <= n /\ n < pr[2]}

Nearest(n) == CHOOSE pr \in Enclosing(n) : \A q \in Enclosing(n) : q[1] <= pr[1]

OpenerOf(j) == CHOOSE i \in 1..Len(Flat) : Matched(i, j)
CloserOf(i) == CHOOSE j \in 1..Len(Flat) : Matched(i, j)

OnePast(point) == Point(point.y, point.x + 1)

----------------------------------------------------------------------------
(* C11 *)

\* the quote characters of Flat nearest a cursor with n characters before
\* it: the last one before the cursor and the first one at or after it
QuotesBefore(n) == {i \in 1..Len(Flat) : Flat[i] = "\"" /\ i <= n}
QuotesAfter(n) == {j \in 1..Len(Flat) : Flat[j] = "\"" /\ n < j}
QuoteBefore(n) == CHOOSE i \in QuotesBefore(n) : \A q \in QuotesBefore(n) : q <= i
QuoteAfter(n) == CHOOSE j \in QuotesAfter(n) : \A q \in QuotesAfter(n) : j <= q

\* the selection has its anchor at point a and its cursor at point b
SelectionFromTo(anc, cur, a, b) == is_some(anc) /\ into(unwrap(anc)) = a /\ into(cur) = b

\* C11: in a buffer of well-formed brackets, from a cursor after the opener
\* and at or before the closer of a pair, select_inside_brackets ('e') puts
\* the anchor one byte past the opener of the nearest enclosing pair and the
\* cursor at its closer, and select_outside_brackets ('E') puts the anchor at
\* that opener and the cursor one past that closer; from a cursor between two
\* quote characters select_inside_quotes ('q') and select_outside_quotes ('Q')
\* do the same with the nearest quote on either side.
C11_InsideOutside ==
    [][text = BracketsAndQuotes =>
         LET n == FlatBefore(cursor) IN
         /\ Enclosing(n) # {} =>
               LET open == PointOfChar(Nearest(n)[1])
                   close == PointOfChar(Nearest(n)[2])
               IN  /\ arm' = "e" => SelectionFromTo(anchor', cursor', OnePast(open), close)
                   /\ arm' = "E" => SelectionFromTo(anchor', cursor', open, OnePast(close))
         /\ (QuotesBefore(n) # {} /\ QuotesAfter(n) # {}) =>
               LET open == PointOfChar(QuoteBefore(n))
                   close == PointOfChar(QuoteAfter(n))
               IN  /\ arm' = "q" => SelectionFromTo(anchor', cursor', OnePast(open), close)
                   /\ arm' = "Q" => SelectionFromTo(anchor', cursor', open, OnePast(close))]_vars

----------------------------------------------------------------------------
(* C12 *)

FooBar == << <<"f", "o", "o">>, <<>>, <<"b", "a", "r">> >>

\* C12 as stated: with buffer ["foo", "", "bar"] and the cursor at row 2
\* byte 0, 'Y' leaves the cursor at row 2 byte 0.
C12_StaysOnRow2 ==
    [][(text = FooBar /\ cursor.y = 2 /\ cursor.x = 0 /\ arm' = "Y")
       => into(cursor') = Point(2, 0)]_vars

\* C12 amended: with buffer ["foo", "", "bar"] and the cursor at row 2
\* byte 0, 'Y' moves the cursor to row 0 byte 0: it steps up to the empty
\* row 1 before it searches, and finds no paragraph start at or above that.
C12_ToRow0 ==
    [][(text = FooBar /\ cursor.y = 2 /\ cursor.x = 0 /\ arm' = "Y")
       => into(cursor') = Point(0, 0)]_vars

\* 'Y' has been handled in that buffer and the cursor is at row 0 byte 0
C12_Witness ==
    /\ text = FooBar /\ arm = "Y"
    /\ into(cursor) = Point(0, 0)

----------------------------------------------------------------------------
(* C13 *)

\* the greatest character boundary of l whose prefix is at most W columns wide
GreatestOffset(l, W) ==
    CHOOSE x \in {len(SubSeq(l, 1, i)) : i \in 0..Len(l)} :
        /\ str_width(Upto(l, x)) <= W
        /\ \A i \in 0..Len(l) :
              str_width(SubSeq(l, 1, i)) <= W => len(SubSeq(l, 1, i)) <= x

SingleWidth(l) == \A i \in 1..Len(l) : width(l[i]) = 1

\* the distance 'j' and 'J' move down by
DownDist(a) == IF a = "j" THEN 1 ELSE 5

\* C13: when move_down(n) ('j', 'J') from a cursor of target width W lands on
\* a row at most W columns wide, the byte column becomes that row's byte
\* length; a move_up(n) after it that comes back to the original row puts the
\* cursor at the greatest character boundary of that row whose prefix is at
\* most W columns wide, which is the original byte column when the row has
\* only single-width characters and W was the width before that column.
C13_ColumnMemory ==
    [][(pc' = "loop" /\ arm' \in {"j", "J"}) =>
         LET W == cursor.w
             down == Line(cursor'.y)
             up == move_up(Self', DownDist(arm'))
         IN  /\ str_width(down) <= W => cursor'.x = len(down)
             /\ up.cursor.y = cursor.y =>
                   /\ up.cursor.x = GreatestOffset(Line(cursor.y), W)
                   /\ (SingleWidth(Line(cursor.y)) /\ W = cursor_width(Self))
                         => up.cursor.x = cursor.x]_vars

\* move_down has landed on a row narrower than the target width: the cursor
\* is at the row's end and still remembers the wider target
C13_Witness ==
    /\ pc = "loop" /\ arm = "j"
    /\ str_width(Line(cursor.y)) < cursor.w
    /\ cursor.x = len(Line(cursor.y))
    /\ move_up(Self, 1).cursor.y # cursor.y

----------------------------------------------------------------------------
(* The scroll offset: files of empty rows, drawn after every vertical move *)

MaxHeight == 7
MaxRows == 9

EmptyRows(n) == [i \in 1..n |-> <<>>]

\* (rows of the file, rows of the terminal): every pair within the bounds,
\* and the file of 100 rows on a terminal of 10
OffsetInputs ==
    ((1..MaxRows) \X (MinHeight..MaxHeight)) \cup {<<100, 10>>}

InitOffset ==
    \E in \in OffsetInputs :
        /\ New(EmptyRows(in[1]))
        /\ size = <<StatusFixed, in[2]>>
        /\ frame = draw(Self, size)

\* main's loop for the keys that move the cursor up and down
VerticalKey ==
    /\ frame.result = "Ok"
    /\ \E k \in {"j", "k", "J", "K"} : HandleNormal(k) /\ Drawn

SpecOffset == InitOffset /\ [][VerticalKey]_vars

Min(a, b) == IF a <= b THEN a ELSE b

\* C14: with h the terminal height less 2, the offset draw_text computes is 0
\* when the buffer has at most h rows or the cursor row is less than h/2, and
\* otherwise the smaller of cursor row - h/2 and buffer length - h; for
\* height 10, 100 rows and cursor row 50 it is 46.
C14_ScrollOffset ==
    LET h == size[2] - 2
        n == Len(text)
        y == cursor.y
    IN  /\ frame.offset = IF n <= h \/ y < h \div 2 THEN 0
                          ELSE Min(y - h \div 2, n - h)
        /\ (size[2] = 10 /\ n = 100 /\ y = 50) => frame.offset = 46

\* the frame of the scenario: height 10, 100 rows, cursor row 50
C14_Witness ==
    /\ size[2] = 10 /\ Len(text) = 100 /\ cursor.y = 50
    /\ frame.result = "Ok" /\ frame.offset = 46

\* C15: on a terminal of at least 3 rows (h >= 1) the cursor row is inside
\* the window, offset <= y < offset + h, the window ends within the buffer
\* when the buffer has more than h rows, and the row the hardware cursor is
\* moved to, y - offset, is the row of a text line: not negative and above
\* the status and search lines.
C15_CursorInWindow ==
    LET h == size[2] - 2
        n == Len(text)
        y == cursor.y
        out == frame.out
    IN  size[2] >= 3 =>
           /\ frame.offset <= y /\ y < frame.offset + h
           /\ n > h => frame.offset + h <= n
           /\ frame.result = "Ok"
           /\ out[Len(out) - 1] = MoveTo(cursor_width(Self), y - frame.offset)
           /\ out[Len(out) - 1][3] >= 0
           /\ out[Len(out) - 1][3] < size[2] - 2

\* the cursor is on the last row of a buffer longer than the window, and the
\* window has scrolled to the end of the buffer
C15_Witness ==
    /\ size[2] >= 3 /\ Len(text) > size[2] - 2
    /\ cursor.y = Len(text) - 1
    /\ frame.offset > 0 /\ frame.offset + size[2] - 2 = Len(text)
    /\ arm \in {"j", "J"}

----------------------------------------------------------------------------
(* main's loop with the drawing: every event is followed by a frame, and a  *)
(* frame that does not end Ok ends the loop                                 *)

DrawBuffers == { <<>>, << <<"a", "/", "/">>, <<"U4E2D">> >> }

DrawSizes == {<<3, 4>>, <<StatusFixed, 3>>, <<StatusFixed, 4>>}

DrawKeys == {"l", "j", "s", "r", "/", "Esc", "f", " ", "q"}

InitDraw ==
    \E file \in DrawBuffers : \E sz \in DrawSizes :
        /\ New(file)
        /\ size = sz
        /\ frame = draw(Self, size)

\* `ui::draw(...)?`: main returns the error of a frame, and reads no event
\* after a frame that did not end Ok
Running == frame.result = "Ok"

NextDraw ==
    \/ \E k \in DrawKeys : Running /\ HandleNormal(k) /\ Drawn
    \/ \E k \in DrawKeys : Running /\ HandleInsert(k) /\ Drawn
    \/ \E k \in DrawKeys : Running /\ HandleSystem(k) /\ Drawn
    \/ \E k \in DrawKeys : Running /\ HandleQuit(k) /\ NoDraw
    \/ \E e \in RegexErrors : Running /\ HandleSearchFails(e) /\ Drawn
    \/ \E sz \in DrawSizes : Running /\ Resize(sz)

SpecDraw == InitDraw /\ [][NextDraw]_vars

\* C16: whenever Regex::new fails on '/', the failure is kept as the search
\* state, every line's match annotations are empty, the frame drawn next ends
\* without an error and prints the message on the search line, and the loop
\* goes on to handle later keys.
C16_CompileFailureRecoverable ==
    [][(/\ arm' = "/" /\ pmode' = "Normal"
        /\ is_some(selection(Self))
        /\ unwrap(selection(Self))[1].y = unwrap(selection(Self))[2].y
        /\ is_some(search') /\ ~unwrap(search').ok)
       => /\ AllAnnotationsEmpty(ann')
          /\ frame'.result = "Ok"
          /\ \E i \in 1..Len(frame'.out) : frame'.out[i] = PrintOf("! ")
          /\ pc' = "loop"]_vars

----------------------------------------------------------------------------
(* C17 *)

\* C17: in the instructions of a call of draw that has returned, Hide is the
\* first, Show comes after every print, colour, clear and move instruction,
\* and a call that has queued Hide has queued Show.
C17_HideThenShow ==
    LET out == frame.out IN
    (frame.result \in {"Ok", "Err"} /\ out # <<>>) =>
       /\ out[1] = Hide
       /\ \A i \in 1..Len(out) :
             out[i] # Show => \E j \in (i + 1)..Len(out) : out[j] = Show

----------------------------------------------------------------------------
(* C18 *)

\* the precondition of grow_selection: an anchor, at or before the cursor
AnchorBeforeCursor(s) ==
    is_some(s.anchor) /\ point_le(into(unwrap(s.anchor)), into(s.cursor))

\* C18: whenever 'E' or 'Q' is handled, the call of grow_selection that
\* select_outside_brackets or select_outside_quotes makes happens with an
\* anchor set and the anchor at or before the cursor.
C18_GrowPrecondition ==
    [][(pc' = "loop" /\ pmode' = "Normal")
       => /\ arm' = "E" => AnchorBeforeCursor(outside_brackets_before_grow(Self))
          /\ arm' = "Q" => AnchorBeforeCursor(outside_quotes_before_grow(Self))]_vars

----------------------------------------------------------------------------
(* C19 *)

\* the arms of move_up and move_down (the arrows take the arms of k and j)
VerticalArms == {"j", "k", "J", "K"}

\* the arms of move_next_match and move_prev_match, which the source calls
\* and does not define
UndefinedArms == {"m", ","}

\* C19: a key of move_up or move_down leaves cursor.w as it was; every other
\* key of Normal mode that changes the cursor's row or byte column leaves
\* cursor.w equal to the width of the text before the new column on the new
\* row (for every key whose function the source defines).
C19_TargetWidth ==
    [][(pc' = "loop" /\ pmode' = "Normal")
       => /\ arm' \in VerticalArms => cursor'.w = cursor.w
          /\ (arm' \notin VerticalArms \cup UndefinedArms /\ into(cursor') # into(cursor))
                => cursor'.w = str_width(Upto(Line(cursor'.y), cursor'.x))]_vars

\* 'l' has moved the cursor over the 3-byte, 2-column character that follows
\* the opening quote: from byte 1 to byte 4, and the target width is 3
C19_Witness ==
    /\ text # <<>> /\ text[1] = <<"\"", "U4E2D", "\"">>
    /\ pc = "loop" /\ pmode = "Normal" /\ arm = "l"
    /\ cursor = Cursor(0, 4, 3)

----------------------------------------------------------------------------
(* C20: files of up to MaxParaRows rows, each empty or " a" *)

MaxParaRows == 4

ParaBuffers == UNION {[1..n -> {<<>>, <<" ", "a">>}] : n \in 1..MaxParaRows}

InitPara ==
    \E file \in ParaBuffers : \E c \in PositionsOf(file) : NewAt(file, c) /\ Undrawn

SpecPara == InitPara /\ [][FirstKey]_vars

\* the rows at or above y that start a paragraph, and those at or below y
\* that end one
ParaStarts(y) == {r \in 1..y : Line(r) # <<>> /\ Line(r - 1) = <<>>}
ParaEnds(y) == {r \in y..(Len(text) - 2) : Line(r) # <<>> /\ Line(r + 1) = <<>>}

StartOfParaAsStated(y) ==
    IF ParaStarts(y) = {} THEN Point(0, 0)
    ELSE start_of_line(CHOOSE r \in ParaStarts(y) : \A q \in ParaStarts(y) : q <= r)

EndOfParaAsStated(y) ==
    IF ParaEnds(y) = {} THEN end_of_file
    ELSE end_of_line(CHOOSE r \in ParaEnds(y) : \A q \in ParaEnds(y) : r <= q)

\* C20: start_of_para(point) is the start of line of the greatest row
\* r <= point.y, r >= 1, that is not empty and follows an empty row, and
\* (0, 0) when there is none; end_of_para(point) is the end of line of the
\* least row r >= point.y that is not empty and precedes an empty row, and
\* the end of the file when there is none.  'R' puts the anchor at the first
\* and the cursor at the second, taken from the first.
C20_ParaBoundaries ==
    [][/\ start_of_para(into(cursor)) = StartOfParaAsStated(cursor.y)
       /\ end_of_para(into(cursor)) = EndOfParaAsStated(cursor.y)
       /\ arm' = "R" =>
             /\ is_some(anchor')
             /\ into(unwrap(anchor')) = StartOfParaAsStated(cursor.y)
             /\ into(cursor') = EndOfParaAsStated(unwrap(anchor').y)]_vars

----------------------------------------------------------------------------
(* C21: buffers of two rows over brackets of two kinds, matched or not *)

MaxAnyLen == 3

AnyBracketBuffers ==
    UNION {{<<SubSeq(str, 1, cut), SubSeq(str, cut + 1, Len(str))>> : cut \in 0..Len(str)} :
              str \in UNION {[1..n -> BracketAlphabet] : n \in 1..MaxAnyLen}}

InitAnyBrackets ==
    \E file \in AnyBracketBuffers : \E c \in PositionsOf(file) : NewAt(file, c) /\ Undrawn

SpecAnyBrackets == InitAnyBrackets /\ [][FirstKey]_vars

\* C21: when close_bracket returns a closing delimiter, the pending stack is
\* empty as that delimiter is read, and when open_bracket returns an opening
\* delimiter its pending stack is empty: a delimiter read with a stack that
\* is not empty is never the answer.
C21_AnswerOnEmptyStack ==
    [][/\ is_some(close_bracket(into(cursor)))
             => close_bracket_pending(into(cursor)) = <<>>
       /\ is_some(open_bracket(into(cursor)))
             => open_bracket_pending(into(cursor)) = <<>>]_vars

----------------------------------------------------------------------------
(* C22: files of a row of up to MaxWordLen characters and a second row *)

MaxWordLen == 4

WordAlphabet == {"a", " ", "_", "(", "U00E9"}

WordBuffers ==
    {<<str, <<"(", "a">>>> : str \in UNION {[1..n -> WordAlphabet] : n \in 0..MaxWordLen}}

InitWords ==
    \E file \in WordBuffers : \E c \in PositionsOf(file) : NewAt(file, c) /\ Undrawn

SpecWords == InitWords /\ [][FirstKey]_vars

\* the classifier of each word-motion arm
ClassOf(a) == IF a \in {"u", "i"} THEN "narrow" ELSE "wide"

\* byte column x of row l is where a word ends: the character before it is
\* wordish and the one after it is not, or is the end of the line
WordEndAt(cls, l, x) ==
    LET m == CharsBefore(l, x) IN
    /\ m >= 1 /\ wordish(cls, l[m])
    /\ m = Len(l) \/ ~wordish(cls, l[m + 1])

\* the mirror image: a word starts at x
WordStartAt(cls, l, x) ==
    LET m == CharsBefore(l, x) IN
    /\ m < Len(l) /\ wordish(cls, l[m + 1])
    /\ m = 0 \/ ~wordish(cls, l[m])

\* C22: move_right_word ('i' narrow, 'I' wide) keeps the row; when a wordish
\* character lies at or after the cursor on its row it moves the cursor to a
\* greater byte offset where a word ends, and otherwise it leaves the cursor
\* unchanged, as at the end of the buffer.  move_left_word ('u', 'U') is the
\* mirror image: with a wordish character before the cursor on its row it
\* moves to a smaller offset where a word starts, otherwise not at all.
C22_WordMotions ==
    [][LET cls == ClassOf(arm')
           l == Line(cursor.y)
           n == CharsBefore(l, cursor.x)
       IN  /\ arm' \in {"i", "I"} =>
                 /\ cursor'.y = cursor.y
                 /\ IF \E j \in (n + 1)..Len(l) : wordish(cls, l[j])
                    THEN cursor'.x > cursor.x /\ WordEndAt(cls, l, cursor'.x)
                    ELSE cursor' = cursor
                 /\ into(cursor) = end_of_file => cursor' = cursor
           /\ arm' \in {"u", "U"} =>
                 /\ cursor'.y = cursor.y
                 /\ IF \E j \in 1..n : wordish(cls, l[j])
                    THEN cursor'.x < cursor.x /\ WordStartAt(cls, l, cursor'.x)
                    ELSE cursor' = cursor
                 /\ into(cursor) = start_of_file => cursor' = cursor]_vars

\* 'i' has stopped after the first word of "a a": started at byte 1 it would
\* have gone on to the end of the second word, so it has moved from byte 0
C22_Witness ==
    /\ text[1] = <<"a", " ", "a">>
    /\ arm = "i"
    /\ into(cursor) = Point(0, 1)

----------------------------------------------------------------------------
(* C23 *)

\* the width of the text before p's byte column on p's row
WidthBefore(p) == str_width(Upto(Line(p.y), p.x))

\* the remembered target width of p is at least the width before its column
WithinTarget(p) == WidthBefore(p) <= p.w

\* C23: in every state reached by key events on a non-empty buffer, the width
\* of the text before the cursor's byte column on its row is at most
\* cursor.w, and the same holds for the anchor when it is set; after every
\* key other than those of move_up and move_down that moved the cursor (and
\* whose function the source defines), the two are equal.
C23_WidthWithinTarget ==
    /\ (pc = "loop" /\ text # <<>>) => WithinTarget(cursor)
    /\ [][(pc' = "loop" /\ text # <<>>)
          => /\ WithinTarget(cursor')
             /\ is_some(anchor') => WithinTarget(unwrap(anchor'))
             /\ (arm' \notin VerticalArms \cup UndefinedArms /\ into(cursor') # into(cursor))
                   => cursor'.w = WidthBefore(cursor')]_vars

\* after 'j' the cursor and the anchor both remember a target width greater
\* than the width before their columns
C23_Witness ==
    /\ pc = "loop" /\ text # <<>> /\ arm = "j"
    /\ WidthBefore(cursor) < cursor.w
    /\ is_some(anchor) /\ WidthBefore(unwrap(anchor)) < unwrap(anchor).w

====
